---- MODULE Spec2Model ----
(***************************************************************************)
(* The tranche coalescing pipeline of coalescer/main.py: the driver        *)
(* (main, coalesce_tranche), the tranche executor (coalesce_topic,         *)
(* pooled_executor), the units of work (coalesce_partition,                *)
(* coalesce_batch_parallel) and the batch coalescer (coalesce_batch).      *)
(* The helpers of utility.grouping and utility.s3 are not part of the      *)
(* sources at hand; they are modelled from their specification.            *)
(***************************************************************************)
EXTENDS Integers, Sequences, FiniteSets, TLC

VARIABLES
    args,        \* the parsed command line (command_line_args)
    objects,     \* the bucket's listing under the prefix, in listing order
    page,        \* number of pages (tranches) the lister has yielded so far
    pc,          \* position of the driver thread
    summaries,   \* coalesce_tranche: the tranche being processed
    grouped,     \* coalesce_tranche: grouped
    batched,     \* coalesce_tranche: batched
    topic,       \* coalesce_tranche: index of the topic being coalesced
    futures,     \* coalesce_tranche: results, one entry per topic so far
    pool,        \* coalesce_topic: the executor of the topic in hand
    submitting,  \* coalesce_topic: the calls still to be submitted, in order
    units,       \* coalesce_topic: the futures submitted to the executor
    results,     \* main: results, one verdict per tranche so far
    exitCode,    \* process exit status, -1 while the process runs
    merged,      \* store: merged objects written (by first source key)
    deleted,     \* store: source keys deleted
    calls,       \* store: every coalesce_batch/delete_batch call and how it ended
    errors       \* number of "Error coalescing batch." lines printed

vars == <<args, objects, page, pc, summaries, grouped, batched, topic, futures,
          pool, submitting, units, results, exitCode, merged, deleted, calls,
          errors>>

----------------------------------------------------------------------------
\* Bounds of the model.

\* Longest bucket listing explored by the pipeline specification.
MaxObjects == 4
\* Longest listing explored by the grouping specification.
MaxGroupLen == 3
\* Longest listing explored by the batching specification.
MaxBatchLen == 4

\* --summaries default: objects fetched per listing page.
DefaultSummaries == 2000000

\* --partition -1: every partition is coalesced.
AllPartitions == -1

----------------------------------------------------------------------------
\* Generic helpers.

Range(s) == {s[i] : i \in 1..Len(s)}

all(bs) == \A i \in 1..Len(bs) : bs[i]

any(bs) == \E i \in 1..Len(bs) : bs[i]

RECURSIVE Flatten(_)
Flatten(ss) == IF ss = <<>> THEN <<>> ELSE Head(ss) \o Flatten(Tail(ss))

RECURSIVE total_size(_)
total_size(ds) == IF ds = <<>> THEN 0 ELSE Head(ds).size + total_size(Tail(ds))

Min(a, b) == IF a < b THEN a ELSE b

----------------------------------------------------------------------------
\* Object descriptors.  A key stands for the key string of a stored object:
\* its shape says which of the two key structures it has, and the topic and
\* the partition are the parts of the string the parsing rule extracts.

Descriptor(kind, i) ==
    [key  |-> [shape |-> kind.shape, topic |-> kind.topic,
               partition |-> kind.partition, seq |-> i],
     size |-> kind.size]

\* The key-parsing rule of the active mode: regular corporate data keys, or
\* streaming manifest keys when manifests is set.
key_matches(key, manifests) ==
    key.shape = (IF manifests THEN "manifest" ELSE "data")

key_topic(key) == key.topic

key_partition(key) == key.partition

----------------------------------------------------------------------------
\* utility.s3.S3.object_summaries: the lister pages through the listing,
\* page_size descriptors at a time.

page_count(listing, page_size) == (Len(listing) + page_size - 1) \div page_size

object_summaries(listing, page_size, k) ==
    SubSeq(listing, (k - 1) * page_size + 1, Min(k * page_size, Len(listing)))

----------------------------------------------------------------------------
\* utility.grouping.grouped_object_summaries.  A mapping is a sequence of
\* entries in insertion order, as the dictionaries of the program are.

has_topic(g, t) == \E i \in 1..Len(g) : g[i].topic = t

topic_index(g, t) == CHOOSE i \in 1..Len(g) : g[i].topic = t

has_partition(ps, p) == \E i \in 1..Len(ps) : ps[i].partition = p

partition_index(ps, p) == CHOOSE i \in 1..Len(ps) : ps[i].partition = p

add_to_partitions(ps, p, d) ==
    IF has_partition(ps, p)
    THEN [ps EXCEPT ![partition_index(ps, p)].group = Append(@, d)]
    ELSE Append(ps, [partition |-> p, group |-> <<d>>])

add_to_grouped(g, t, p, d) ==
    IF has_topic(g, t)
    THEN [g EXCEPT ![topic_index(g, t)].partitions = add_to_partitions(@, p, d)]
    ELSE Append(g, [topic |-> t, partitions |-> add_to_partitions(<<>>, p, d)])

\* Whether the descriptor goes into the grouped tranche: its key must parse
\* under the active mode (a malformed key is skipped with a warning), and
\* with a partition selected it must belong to that partition.
is_grouped(d, partition, manifests) ==
    /\ key_matches(d.key, manifests)
    /\ partition = AllPartitions \/ key_partition(d.key) = partition

RECURSIVE group_from(_, _, _, _)
group_from(g, ds, partition, manifests) ==
    IF ds = <<>> THEN g
    ELSE LET d == Head(ds)
             g2 == IF is_grouped(d, partition, manifests)
                   THEN add_to_grouped(g, key_topic(d.key), key_partition(d.key), d)
                   ELSE g
         IN  group_from(g2, Tail(ds), partition, manifests)

grouped_object_summaries(ds, partition, manifests) ==
    group_from(<<>>, ds, partition, manifests)

----------------------------------------------------------------------------
\* utility.grouping.batched_object_summaries.

\* Whether the current batch is closed before d is added: adding d would
\* exceed the size limit (and the batch is not empty), or the batch already
\* holds file_limit descriptors.  A limit <= 0 does not bound.
closes_batch(size_limit, file_limit, current, d) ==
    \/ size_limit > 0 /\ current # <<>> /\ total_size(current) + d.size > size_limit
    \/ file_limit > 0 /\ Len(current) >= file_limit

RECURSIVE batch_from(_, _, _, _, _)
batch_from(size_limit, file_limit, closed, current, ds) ==
    IF ds = <<>>
    THEN IF current = <<>> THEN closed ELSE Append(closed, current)
    ELSE LET d == Head(ds)
         IN  IF closes_batch(size_limit, file_limit, current, d)
             THEN batch_from(size_limit, file_limit, Append(closed, current), <<d>>, Tail(ds))
             ELSE batch_from(size_limit, file_limit, closed, Append(current, d), Tail(ds))

\* Variant of batched_partition: the batch still open at the end is not kept.
RECURSIVE batch_from_unflushed(_, _, _, _, _)
batch_from_unflushed(size_limit, file_limit, closed, current, ds) ==
    IF ds = <<>>
    THEN closed
    ELSE LET d == Head(ds)
         IN  IF closes_batch(size_limit, file_limit, current, d)
             THEN batch_from_unflushed(size_limit, file_limit, Append(closed, current),
                                       <<d>>, Tail(ds))
             ELSE batch_from_unflushed(size_limit, file_limit, closed,
                                       Append(current, d), Tail(ds))

batched_partition_unflushed(size_limit, file_limit, group) ==
    batch_from_unflushed(size_limit, file_limit, <<>>, <<>>, group)

batched_partition(size_limit, file_limit, group) ==
    batch_from(size_limit, file_limit, <<>>, <<>>, group)

batched_object_summaries(size_limit, file_limit, g) ==
    [t \in 1..Len(g) |->
        [topic |-> g[t].topic,
         partitions |->
            [p \in 1..Len(g[t].partitions) |->
                [partition |-> g[t].partitions[p].partition,
                 batches |-> batched_partition(size_limit, file_limit,
                                               g[t].partitions[p].group)]]]]

----------------------------------------------------------------------------
\* utility.grouping.successful_result: the tranche verdict.  With batches
\* parallelised each future holds one outcome; otherwise each future holds
\* the list of outcomes of one partition, flattened first.  A topic that
\* returned no futures, or a future that holds an exception, raises.

future_outcomes(fs) == Flatten([i \in 1..Len(fs) |-> fs[i].outcomes])

result_raises(rs) ==
    \E r \in Range(rs) : \/ ~r.returned
                         \/ \E f \in Range(r.futures) : f.state # "done"

successful_result(rs, parallelised) ==
    IF parallelised
    THEN \A r \in Range(rs) : \A f \in Range(r.futures) : f.outcomes[1]
    ELSE all(Flatten([i \in 1..Len(rs) |-> future_outcomes(rs[i].futures)]))

----------------------------------------------------------------------------
\* coalescer/main.py

\* Variant of exit_status: any in place of all.
exit_status_any(rs) == IF any(rs) THEN 0 ELSE 1

\* main, line 23: exit(0 if all(results) else 1)
exit_status(rs) == IF all(rs) THEN 0 ELSE 1

\* Variant of coalesce_tranche_grouped: the manifests flag is not passed on.
coalesce_tranche_grouped_regular(ds, a) ==
    grouped_object_summaries(ds, a.partition, FALSE)

\* Variant of coalesce_tranche_grouped: the partition selector is not passed on.
coalesce_tranche_grouped_unfiltered(ds, a) ==
    grouped_object_summaries(ds, AllPartitions, a.manifests)

\* coalesce_tranche, line 29
coalesce_tranche_grouped(ds, a) ==
    grouped_object_summaries(ds, a.partition, a.manifests)

\* Variant of coalesce_tranche_batched: the two limits change places.
coalesce_tranche_batched_swapped(a, g) ==
    batched_object_summaries(a.files, a.size, g)

\* coalesce_tranche, line 31
coalesce_tranche_batched(a, g) ==
    batched_object_summaries(a.size, a.files, g)

\* coalesce_tranche, line 35: args.partition != -1
parallelise_batches(a) == a.partition # AllPartitions

\* Variant of strict_single_partition: the test is inverted.
strict_single_partition_inverted(a) == a.partition = AllPartitions

\* coalesce_tranche, line 41: args.partition != -1
strict_single_partition(a) == a.partition # AllPartitions

\* Variant of pooled_executor: the thread count is not passed to the pool.
pooled_executor_default(multiprocessor, threads) ==
    [kind        |-> IF multiprocessor THEN "process" ELSE "thread",
     max_workers |-> 0,
     shutdown    |-> FALSE]

\* pooled_executor: max_workers 0 stands for None, the pool's own default.
pooled_executor(multiprocessor, threads) ==
    [kind        |-> IF multiprocessor THEN "process" ELSE "thread",
     max_workers |-> IF threads > 0 THEN threads ELSE 0,
     shutdown    |-> FALSE]

NoPool == [kind |-> "none", max_workers |-> 0, shutdown |-> TRUE]

\* executor.submit: a future, pending until a worker picks it up.
submit(kind, batches, tranche) ==
    [kind |-> kind, tranche |-> tranche, batches |-> batches,
     state |-> "pending", idx |-> 1, stage |-> "enter", outcomes |-> <<>>]

\* Variant of coalesce_topic_submit: one future per batch whatever the flag.
coalesce_topic_submit_batches(batched_topic, parallelise, tranche) ==
    LET first == batched_topic.partitions[1]
    IN  [b \in 1..Len(first.batches) |->
            submit("batch", <<first.batches[b]>>, tranche)]

\* Variant of coalesce_topic_submit: each future of a parallelised batch is
\* given the batches of the whole partition.
coalesce_topic_submit_whole(batched_topic, parallelise, tranche) ==
    IF parallelise
    THEN LET first == batched_topic.partitions[1]
         IN  [b \in 1..Len(first.batches) |-> submit("batch", first.batches, tranche)]
    ELSE [p \in 1..Len(batched_topic.partitions) |->
             submit("partition", batched_topic.partitions[p].batches, tranche)]

\* coalesce_topic, lines 50-51 (one future per batch of the first partition)
\* and lines 63-64 (one future per partition).
coalesce_topic_submit(batched_topic, parallelise, tranche) ==
    IF parallelise
    THEN LET first == batched_topic.partitions[1]
         IN  [b \in 1..Len(first.batches) |->
                 submit("batch", <<first.batches[b]>>, tranche)]
    ELSE [p \in 1..Len(batched_topic.partitions) |->
             submit("partition", batched_topic.partitions[p].batches, tranche)]

\* Variant of wait: returns at once.
wait_nothing(fs) == TRUE

\* concurrent.futures.wait, lines 54 and 68: blocks until every future has
\* finished, with a result or with an exception.
wait(fs) == \A i \in 1..Len(fs) : fs[i].state \in {"done", "raised"}

\* coalesce_batch: the value a batch returns is its outcome; the unit moves
\* on to its next batch or finishes.
batch_return(u, outcome) ==
    IF u.idx >= Len(u.batches)
    THEN [u EXCEPT !.outcomes = Append(@, outcome), !.state = "done", !.stage = "enter"]
    ELSE [u EXCEPT !.outcomes = Append(@, outcome), !.idx = @ + 1, !.stage = "enter"]

\* Variant of except_clause: the batch is tried again.
except_retry(u) == [u EXCEPT !.stage = "enter"]

\* Variant of except_clause: the error is swallowed and the batch returns True.
except_success(u) == batch_return(u, TRUE)

\* Variant of except_clause: only s3.coalesce_batch is guarded, and the
\* delete goes ahead after its error.
except_continue(u) ==
    IF u.stage = "enter" THEN [u EXCEPT !.stage = "delete"] ELSE batch_return(u, FALSE)

\* Variant of except_clause: the error leaves coalesce_batch and ends the unit.
except_reraise(u) == [u EXCEPT !.state = "raised"]

\* coalesce_batch, lines 99-102: any error is caught and the batch returns False.
except_clause(u) == batch_return(u, FALSE)

\* Variant of is_coalesced: if batch
is_coalesced_nonempty(batch) == batch # <<>>

\* coalesce_batch, line 93: if batch and len(batch) > 1
is_coalesced(batch) == batch # <<>> /\ Len(batch) > 1

batch_id(batch) == batch[1].key.seq

batch_keys(batch) == {batch[i].key.seq : i \in 1..Len(batch)}

\* The store's record of a call: the batch, the keys of its objects, the
\* operation and whether it returned (ok) or raised.
store_call(batch, op, ok) ==
    [batch |-> batch_id(batch), keys |-> batch_keys(batch), op |-> op, ok |-> ok]

\* The units that hold a worker of the pool: a unit whose store call never
\* returns keeps its worker.
running(us) == {i \in 1..Len(us) : us[i].state \in {"running", "hung"}}

----------------------------------------------------------------------------
\* Initial states: a bucket listing drawn from Kinds, and a command line.

InitWith(Kinds, max_len, Args) ==
    /\ args \in Args
    /\ \E n \in 0..max_len : \E f \in [1..n -> Kinds] :
          objects = [i \in 1..n |-> Descriptor(f[i], i)]
    /\ page = 0
    /\ pc = "list"
    /\ summaries = <<>>
    /\ grouped = <<>>
    /\ batched = <<>>
    /\ topic = 0
    /\ futures = <<>>
    /\ pool = NoPool
    /\ submitting = <<>>
    /\ units = <<>>
    /\ results = <<>>
    /\ exitCode = -1
    /\ merged = {}
    /\ deleted = {}
    /\ calls = {}
    /\ errors = 0

storeVars == <<merged, deleted, calls, errors>>
workVars == <<pool, units>>
trancheVars == <<summaries, grouped, batched, topic, futures, submitting>>

----------------------------------------------------------------------------
\* The driver thread.

\* main, lines 19-20: the lister yields the next tranche and coalesce_tranche
\* is entered with it.
NextTranche ==
    /\ pc = "list"
    /\ page < page_count(objects, args.summaries)
    /\ page' = page + 1
    /\ summaries' = object_summaries(objects, args.summaries, page + 1)
    /\ grouped' = <<>>
    /\ batched' = <<>>
    /\ topic' = 0
    /\ futures' = <<>>
    /\ pc' = "group"
    /\ UNCHANGED submitting
    /\ UNCHANGED <<args, objects, results, exitCode>>
    /\ UNCHANGED workVars
    /\ UNCHANGED storeVars

\* coalesce_tranche, lines 28-30.
GroupStep ==
    /\ pc = "group"
    /\ grouped' = coalesce_tranche_grouped(summaries, args)
    /\ pc' = "batch"
    /\ UNCHANGED <<args, objects, page, summaries, batched, topic, futures,
                   submitting, results, exitCode>>
    /\ UNCHANGED workVars
    /\ UNCHANGED storeVars

\* coalesce_tranche, lines 31-32.
BatchStep ==
    /\ pc = "batch"
    /\ batched' = coalesce_tranche_batched(args, grouped)
    /\ topic' = 1
    /\ pc' = "topics"
    /\ UNCHANGED <<args, objects, page, summaries, grouped, futures,
                   submitting, results, exitCode>>
    /\ UNCHANGED workVars
    /\ UNCHANGED storeVars

\* An exception raised while grouping or batching: neither coalesce_tranche
\* nor main handles it, so it ends the process with a traceback and status 1.
StageRaise ==
    /\ pc \in {"group", "batch"}
    /\ pc' = "crashed"
    /\ exitCode' = 1
    /\ UNCHANGED <<args, objects, page, results>>
    /\ UNCHANGED trancheVars
    /\ UNCHANGED workVars
    /\ UNCHANGED storeVars

\* coalesce_topic, lines 46-48 and 61-62: the call is entered and the pool
\* is created; the calls to submit are those of the first partition, batch
\* by batch, or those of the partitions.  With batches parallelised and no
\* partition in the topic the loop body never runs: the with block is left,
\* which shuts the pool down, and the call returns None.
coalesce_topic(parallelise) ==
    /\ pc = "topics"
    /\ topic <= Len(batched)
    /\ units' = <<>>
    /\ IF parallelise /\ batched[topic].partitions = <<>>
       THEN /\ pool' = [pooled_executor(args.multiprocessor, args.threads)
                           EXCEPT !.shutdown = TRUE]
            /\ futures' = Append(futures, [returned |-> FALSE, futures |-> <<>>])
            /\ topic' = topic + 1
            /\ pc' = "topics"
            /\ UNCHANGED submitting
       ELSE /\ pool' = pooled_executor(args.multiprocessor, args.threads)
            /\ submitting' = coalesce_topic_submit(batched[topic], parallelise, page)
            /\ pc' = IF submitting' = <<>> THEN "wait" ELSE "submit"
            /\ UNCHANGED <<futures, topic>>
    /\ UNCHANGED <<args, objects, page, summaries, grouped, batched,
                   results, exitCode>>
    /\ UNCHANGED storeVars

\* coalesce_topic, lines 50-51 and 63-64: executor.submit hands the next call
\* to the pool and returns its future; the units submitted before it may
\* already run.  After the last one the driver goes on to wait.
Submit ==
    /\ pc = "submit"
    /\ submitting # <<>>
    /\ units' = Append(units, Head(submitting))
    /\ submitting' = Tail(submitting)
    /\ pc' = IF Tail(submitting) = <<>> THEN "wait" ELSE "submit"
    /\ UNCHANGED <<args, objects, page, summaries, grouped, batched, topic,
                   futures, pool, results, exitCode>>
    /\ UNCHANGED storeVars

\* coalesce_tranche, lines 33-36: coalesce_topic is called for the next topic,
\* with batches parallelised when a partition is selected.
TopicEnter == coalesce_topic(parallelise_batches(args))

\* coalesce_topic, lines 54-58 and 68-72: wait, shut the pool down, return
\* the futures.
TopicReturn ==
    /\ pc = "wait"
    /\ wait(units)
    /\ pool' = [pool EXCEPT !.shutdown = TRUE]
    /\ futures' = Append(futures, [returned |-> TRUE, futures |-> units])
    /\ topic' = topic + 1
    /\ pc' = "topics"
    /\ UNCHANGED <<args, objects, page, summaries, grouped, batched,
                   submitting, units, results, exitCode>>
    /\ UNCHANGED storeVars

\* coalesce_tranche, lines 37-41: the verdict of the tranche is appended to
\* the results of main.  An exception out of successful_result is not
\* handled and ends the process.
Aggregate ==
    /\ pc = "topics"
    /\ topic > Len(batched)
    /\ IF result_raises(futures)
       THEN /\ pc' = "crashed"
            /\ exitCode' = 1
            /\ UNCHANGED results
       ELSE /\ results' = Append(results,
                            successful_result(futures, strict_single_partition(args)))
            /\ pc' = "list"
            /\ UNCHANGED exitCode
    /\ UNCHANGED <<args, objects, page>>
    /\ UNCHANGED trancheVars
    /\ UNCHANGED workVars
    /\ UNCHANGED storeVars

\* main, lines 21-23.
Exit ==
    /\ pc = "list"
    /\ page >= page_count(objects, args.summaries)
    /\ exitCode' = exit_status(results)
    /\ pc' = "exited"
    /\ UNCHANGED <<args, objects, page, results>>
    /\ UNCHANGED trancheVars
    /\ UNCHANGED workVars
    /\ UNCHANGED storeVars

----------------------------------------------------------------------------
\* The workers of the pool.

\* A worker picks a pending unit up: coalesce_partition, lines 82-84, or
\* coalesce_batch_parallel, line 88.  No more than max_workers units run.
UnitStart(i) ==
    /\ units[i].state = "pending"
    /\ pool.max_workers = 0 \/ Cardinality(running(units)) < pool.max_workers
    /\ units' = [units EXCEPT ![i].state =
                    IF units[i].batches = <<>> THEN "done" ELSE "running"]
    /\ UNCHANGED <<args, objects, page, pc, pool, results, exitCode>>
    /\ UNCHANGED trancheVars
    /\ UNCHANGED storeVars

\* coalesce_batch, lines 96-98: a batch of at most one object is not processed.
BatchSkip(i) ==
    LET u == units[i] IN
    /\ u.state = "running"
    /\ u.stage = "enter"
    /\ ~is_coalesced(u.batches[u.idx])
    /\ units' = [units EXCEPT ![i] = batch_return(u, TRUE)]
    /\ UNCHANGED <<args, objects, page, pc, pool, results, exitCode>>
    /\ UNCHANGED trancheVars
    /\ UNCHANGED storeVars

\* coalesce_batch, line 94: s3.coalesce_batch reads the objects of the batch
\* and writes the merged object, or raises.
BatchMerge(i) ==
    LET u == units[i]
        b == u.batches[u.idx]
    IN
    /\ u.state = "running"
    /\ u.stage = "enter"
    /\ is_coalesced(b)
    /\ \E ok \in BOOLEAN :
          /\ calls' = calls \cup {store_call(b, "coalesce", ok)}
          /\ IF ok
             THEN /\ merged' = merged \cup {batch_id(b)}
                  /\ units' = [units EXCEPT ![i].stage = "delete"]
                  /\ UNCHANGED errors
             ELSE /\ units' = [units EXCEPT ![i] = except_clause(u)]
                  /\ errors' = errors + 1
                  /\ UNCHANGED merged
    /\ UNCHANGED <<args, objects, page, pc, pool, results, exitCode, deleted>>
    /\ UNCHANGED trancheVars

\* coalesce_batch, lines 95 and 98: s3.delete_batch deletes the objects of
\* the batch, or raises having deleted only some of them.
BatchDelete(i) ==
    LET u == units[i]
        b == u.batches[u.idx]
    IN
    /\ u.state = "running"
    /\ u.stage = "delete"
    /\ \E ok \in BOOLEAN :
          /\ calls' = calls \cup {store_call(b, "delete", ok)}
          /\ IF ok
             THEN /\ deleted' = deleted \cup batch_keys(b)
                  /\ units' = [units EXCEPT ![i] = batch_return(u, TRUE)]
                  /\ UNCHANGED errors
             ELSE /\ \E gone \in SUBSET batch_keys(b) \ {batch_keys(b)} :
                        deleted' = deleted \cup gone
                  /\ units' = [units EXCEPT ![i] = except_clause(u)]
                  /\ errors' = errors + 1
    /\ UNCHANGED <<args, objects, page, pc, pool, results, exitCode, merged>>
    /\ UNCHANGED trancheVars

----------------------------------------------------------------------------
\* The pipeline: short listings of a few kinds of objects, every stage and
\* every worker.

Regular(t, p, n) == [shape |-> "data", topic |-> t, partition |-> p, size |-> n]

PipelineKinds ==
    {Regular("t1", 0, 3), Regular("t1", 0, 1), Regular("t1", 1, 1), Regular("t2", 0, 1)}

PipelineArgs ==
    [manifests : {FALSE}, partition : {AllPartitions, 0, 1}, size : {3}, files : {2},
     threads : {0, 1}, multiprocessor : BOOLEAN, summaries : {2, DefaultSummaries}]

Init == InitWith(PipelineKinds, MaxObjects, PipelineArgs)

Next ==
    \/ NextTranche
    \/ GroupStep
    \/ BatchStep
    \/ StageRaise
    \/ TopicEnter
    \/ Submit
    \/ TopicReturn
    \/ Aggregate
    \/ Exit
    \/ \E i \in 1..Len(units) : UnitStart(i)
    \/ \E i \in 1..Len(units) : BatchSkip(i)
    \/ \E i \in 1..Len(units) : BatchMerge(i)
    \/ \E i \in 1..Len(units) : BatchDelete(i)

Spec == Init /\ [][Next]_vars

----------------------------------------------------------------------------
\* Grouping alone: listings of regular and manifest keys over two topics and
\* two partitions, every partition selector and both modes.

GroupingKinds ==
    [shape : {"data", "manifest"}, topic : {"t1", "t2"}, partition : {0, 1}, size : {1}]

GroupingArgs ==
    [manifests : BOOLEAN, partition : {AllPartitions, 0, 1}, size : {3}, files : {2},
     threads : {0}, multiprocessor : {FALSE}, summaries : {DefaultSummaries}]

InitGrouping == InitWith(GroupingKinds, MaxGroupLen, GroupingArgs)

NextGrouping == NextTranche \/ GroupStep

SpecGrouping == InitGrouping /\ [][NextGrouping]_vars

----------------------------------------------------------------------------
\* Batching alone: one partition of objects of three sizes, under every
\* combination of size and file limits, the non-positive ones included.

BatchingKinds == {Regular("t1", 0, n) : n \in 1..3}

BatchingArgs ==
    [manifests : {FALSE}, partition : {AllPartitions}, size : {-1, 0, 2, 3, 4},
     files : {-1, 0, 1, 2, 3}, threads : {0}, multiprocessor : {FALSE},
     summaries : {DefaultSummaries}]

InitBatching == InitWith(BatchingKinds, MaxBatchLen, BatchingArgs)

NextBatching == NextTranche \/ GroupStep \/ BatchStep

SpecBatching == InitBatching /\ [][NextBatching]_vars

----------------------------------------------------------------------------
\* Properties.

UnitIndexes == 1..Len(units)

\* A store call of the batch raised.
batch_failed(b) == \E c \in calls : c.batch = batch_id(b) /\ ~c.ok

\* The store was asked to coalesce the batch.
batch_attempted(b) == \E c \in calls : c.batch = batch_id(b) /\ c.op = "coalesce"

\* The outcomes the futures of the tranche hold, topic by topic, in order.
tranche_outcomes ==
    Flatten([t \in 1..Len(futures) |-> future_outcomes(futures[t].futures)])

\* The driver is inside coalesce_topic, submitting units or waiting for them.
in_coalesce_topic == pc \in {"submit", "wait"}

\* The verdict of the tranche in hand has been appended to the results.
verdict_given == pc \in {"list", "exited"} /\ page > 0 /\ Len(results) = page

\* C1: failure isolation.  Under either strategy no error leaves a batch; the
\* outcome of a batch is false exactly when one of its own store calls
\* failed, whatever happened to its siblings; a finished unit has coalesced
\* every one of its batches; and the verdict of the tranche is false exactly
\* when one of its outcomes is.
FailureIsolation ==
    /\ \A i \in UnitIndexes :
          LET u == units[i] IN
          /\ u.state # "raised"
          /\ \A j \in 1..Len(u.outcomes) :
                u.outcomes[j] = ~batch_failed(u.batches[j])
          /\ u.state = "done" =>
                /\ Len(u.outcomes) = Len(u.batches)
                /\ \A j \in 1..Len(u.batches) :
                      is_coalesced(u.batches[j]) => batch_attempted(u.batches[j])
    /\ verdict_given => (results[page] = all(tranche_outcomes))

\* C1 witness: three batches of which only the second failed, with outcomes
\* true, false, true and a false verdict.
FailureIsolationCase ==
    /\ verdict_given
    /\ tranche_outcomes = <<TRUE, FALSE, TRUE>>
    /\ results[page] = FALSE
    /\ \E i \in UnitIndexes : \E j \in 1..Len(units[i].batches) :
          batch_failed(units[i].batches[j])

\* C2: the exit status is the conjunction of the tranche outcomes.  Once main
\* has processed every tranche and exits, the status is 0 exactly when no
\* batch failed and 1 exactly when some batch failed.
ExitStatusIsConjunction ==
    pc = "exited" =>
        /\ page = page_count(objects, args.summaries)
        /\ Len(results) = page
        /\ exitCode = 0 <=> errors = 0
        /\ exitCode = 1 <=> errors > 0

\* C2 witness: two tranches, the first succeeded and a batch of the second
\* failed, exit status 1.
ExitStatusCase ==
    /\ pc = "exited"
    /\ results = <<TRUE, FALSE>>
    /\ exitCode = 1
    /\ errors = 1

\* C3: a failure while grouping or batching aborts only its tranche.  The
\* process ends only by main's exit, after every tranche of the lister has
\* been taken and given a verdict.
StageFailureAbortsOnlyTranche ==
    exitCode # -1 =>
        /\ pc = "exited"
        /\ page = page_count(objects, args.summaries)
        /\ Len(results) = page

\* C4: no fire-and-forget.  Whenever the driver is not inside coalesce_topic,
\* submitting units or waiting for them, every unit submitted so far has
\* finished, and every future coalesce_topic returned holds the outcome of
\* each of its batches.
WaitsForCompletion ==
    /\ ~in_coalesce_topic => \A i \in UnitIndexes : units[i].state = "done"
    /\ \A t \in 1..Len(futures) : \A f \in Range(futures[t].futures) :
          f.state = "done" /\ Len(f.outcomes) = Len(f.batches)

\* C4 witness: coalesce_topic has returned from a process pool to which it
\* had submitted two units, each with a batch the store was called for.
WaitsForCompletionCase ==
    /\ pc = "topics"
    /\ pool.kind = "process"
    /\ pool.shutdown
    /\ Len(futures) = 1
    /\ Len(units) = 2
    /\ \A i \in UnitIndexes : batch_attempted(units[i].batches[1])

\* C5: no overlap between tranches.  While tranche k is grouped, batched or
\* coalesced, the verdicts of the k-1 tranches before it have all been
\* aggregated, every unit of an earlier tranche has finished, and a unit
\* that has not finished belongs to tranche k, whose coalesce_topic call has
\* not returned.
NoTrancheOverlap ==
    /\ pc \in {"group", "batch", "topics", "submit", "wait"} =>
          Len(results) = page - 1
    /\ \A i \in UnitIndexes :
          /\ units[i].tranche < page => units[i].state = "done"
          /\ units[i].state \in {"pending", "running"} =>
                units[i].tranche = page /\ in_coalesce_topic

\* C5 witness: a unit of the second tranche is running, after the units of
\* the first tranche called the store and its verdict was aggregated.
NoTrancheOverlapCase ==
    /\ page = 2
    /\ pc = "wait"
    /\ Len(results) = 1
    /\ \E i \in UnitIndexes : units[i].state = "running" /\ units[i].tranche = 2
    /\ \E c \in calls : c.batch <= 2

\* C6: no-op singletons.  A batch of at most one member is never the subject
\* of a store call, and its outcome, once it has one, is success.
NoOpSingletons ==
    \A i \in UnitIndexes :
        LET u == units[i] IN
        \A j \in 1..Len(u.batches) :
            ~(Len(u.batches[j]) > 1) =>
                /\ u.batches[j] # <<>> =>
                      ~\E c \in calls : c.batch = batch_id(u.batches[j])
                /\ j <= Len(u.outcomes) => u.outcomes[j] = TRUE

\* C6 witness: a unit returned success for a batch of one member while a
\* sibling batch of two went to the store.
NoOpSingletonsCase ==
    \E i \in UnitIndexes :
        LET u == units[i] IN
        /\ Len(u.batches) = 2
        /\ Len(u.batches[1]) = 1
        /\ Len(u.batches[2]) = 2
        /\ u.outcomes = <<TRUE, FALSE>>

\* The places (topic, partition) of the grouped tranche.
GroupPlaces ==
    UNION {{<<t, p>> : p \in 1..Len(grouped[t].partitions)} : t \in 1..Len(grouped)}

\* The batches of the batched tranche.
BatchedBatches ==
    UNION {UNION {Range(batched[t].partitions[p].batches) :
                     p \in 1..Len(batched[t].partitions)} :
              t \in 1..Len(batched)}

\* C7, as claimed: every batch of two or more members stays within the size
\* limit and the file limit, whatever the limits are.
BatchSizeBoundEveryLimit ==
    \A b \in BatchedBatches :
        Len(b) >= 2 => total_size(b) <= args.size /\ Len(b) <= args.files

\* C7, amended: every batch of two or more members stays within each limit
\* that is positive; a limit of zero or less does not bound the batches.
BatchSizeBound ==
    \A b \in BatchedBatches :
        Len(b) >= 2 =>
            /\ args.size > 0 => total_size(b) <= args.size
            /\ args.files > 0 => Len(b) <= args.files

\* C7 witness: a batch of two members that meets both limits exactly, next
\* to a batch of one member that alone exceeds the size limit.
BatchSizeBoundCase ==
    /\ pc = "topics"
    /\ \E b \in BatchedBatches :
          Len(b) >= 2 /\ Len(b) = args.files /\ total_size(b) = args.size
    /\ \E b \in BatchedBatches : Len(b) = 1 /\ total_size(b) > args.size

\* C8: batch coverage and order.  Once a tranche is batched, the batched
\* tranche has the topics and partitions of the grouped tranche, the batches
\* of each partition concatenated in order are its partition group, and no
\* batch is empty.
BatchCoverage ==
    pc \notin {"group", "batch"} =>
        /\ Len(batched) = Len(grouped)
        /\ \A t \in 1..Len(grouped) :
              /\ batched[t].topic = grouped[t].topic
              /\ Len(batched[t].partitions) = Len(grouped[t].partitions)
              /\ \A p \in 1..Len(grouped[t].partitions) :
                    /\ batched[t].partitions[p].partition =
                          grouped[t].partitions[p].partition
                    /\ Flatten(batched[t].partitions[p].batches) =
                          grouped[t].partitions[p].group
        /\ \A b \in BatchedBatches : b # <<>>

\* C8 witness: a partition group of four descriptors cut into three batches.
BatchCoverageCase ==
    /\ pc = "topics"
    /\ Len(grouped) = 1
    /\ Len(grouped[1].partitions[1].group) = 4
    /\ Len(batched[1].partitions[1].batches) = 3

\* The places of the grouped tranche that hold the descriptor.
occurrences(d) ==
    UNION {{<<tp, k>> : k \in {k \in 1..Len(grouped[tp[1]].partitions[tp[2]].group) :
                               grouped[tp[1]].partitions[tp[2]].group[k] = d}} :
              tp \in GroupPlaces}

\* The descriptors of the tranche that parse to the topic and partition.
natural_group(t, p) ==
    LET belongs(d) == /\ key_matches(d.key, args.manifests)
                      /\ key_topic(d.key) = t
                      /\ key_partition(d.key) = p
    IN  SelectSeq(summaries, belongs)

\* C9, as claimed: with every partition selected, every descriptor of the
\* tranche is in exactly one partition group.
GroupingCompleteEveryKey ==
    (pc = "batch" /\ args.partition = AllPartitions) =>
        \A i \in 1..Len(summaries) : Cardinality(occurrences(summaries[i])) = 1

\* C9, amended: with every partition selected, every descriptor whose key
\* parses under the active mode is in exactly one partition group, a
\* descriptor whose key does not parse is in none, and each partition group
\* holds the descriptors of its topic and partition in listing order.
GroupingComplete ==
    (pc = "batch" /\ args.partition = AllPartitions) =>
        /\ \A i \in 1..Len(summaries) :
              Cardinality(occurrences(summaries[i])) =
                 IF key_matches(summaries[i].key, args.manifests) THEN 1 ELSE 0
        /\ \A tp \in GroupPlaces :
              grouped[tp[1]].partitions[tp[2]].group =
                 natural_group(grouped[tp[1]].topic,
                               grouped[tp[1]].partitions[tp[2]].partition)

\* C9 witness: in manifest mode, a tranche of three descriptors of which two
\* share a partition group and one, a regular key, is left out.
GroupingCompleteCase ==
    /\ pc = "batch"
    /\ args.partition = AllPartitions
    /\ args.manifests
    /\ Len(summaries) = 3
    /\ \E i \in 1..3 : ~key_matches(summaries[i].key, args.manifests)
    /\ \E tp \in GroupPlaces : Len(grouped[tp[1]].partitions[tp[2]].group) = 2

\* C10: single-partition filter.  With a partition p >= 0 selected, the
\* grouped tranche holds only descriptors of partition p, every batch given
\* to a unit holds only objects of partition p, and the store is called for,
\* and deletes, objects of partition p only.
SinglePartitionFilter ==
    args.partition >= 0 =>
        /\ \A tp \in GroupPlaces :
              \A d \in Range(grouped[tp[1]].partitions[tp[2]].group) :
                  key_partition(d.key) = args.partition
        /\ \A i \in UnitIndexes : \A b \in Range(units[i].batches) :
              \A d \in Range(b) : key_partition(d.key) = args.partition
        /\ \A c \in calls : key_partition(objects[c.batch].key) = args.partition
        /\ \A k \in deleted : key_partition(objects[k].key) = args.partition

\* C10 witness: partition 1 is selected, the tranche lists objects of
\* partition 0 as well, and the objects of a batch have been deleted.
SinglePartitionFilterCase ==
    /\ args.partition = 1
    /\ pc = "topics"
    /\ \E d \in Range(summaries) : key_partition(d.key) = 0
    /\ deleted # {}

----------------------------------------------------------------------------
\* The tranche executor alone: a tranche grouped with every partition kept,
\* and coalesce_topic called for each of its topics with either strategy.

StrategyArgs ==
    [manifests : {FALSE}, partition : {AllPartitions}, size : {3}, files : {2},
     threads : {0}, multiprocessor : {FALSE}, summaries : {DefaultSummaries}]

InitStrategy == InitWith(PipelineKinds, MaxObjects, StrategyArgs)

\* coalesce_topic called with parallelise_batches set either way.
TopicCall == \E parallelise \in BOOLEAN : coalesce_topic(parallelise)

NextStrategy ==
    \/ NextTranche
    \/ GroupStep
    \/ BatchStep
    \/ TopicCall
    \/ Submit
    \/ TopicReturn
    \/ \E i \in 1..Len(units) : UnitStart(i)
    \/ \E i \in 1..Len(units) : BatchSkip(i)
    \/ \E i \in 1..Len(units) : BatchMerge(i)
    \/ \E i \in 1..Len(units) : BatchDelete(i)

SpecStrategy == InitStrategy /\ [][NextStrategy]_vars

\* The batches of the batched tranche that go to the store.
CoalescedBatches == {b \in BatchedBatches : is_coalesced(b)}

\* C11: strategy equivalence.  Once coalesce_topic has returned for every
\* topic of the batched tranche and no store call failed, the merged objects
\* are those of all the batches of two or more members and the deleted keys
\* are the keys of those batches, whichever strategy each call used; so the
\* two strategies merge and delete the same keys.
StrategyEquivalence ==
    (/\ pc = "topics"
     /\ topic > Len(batched)
     /\ \A c \in calls : c.ok) =>
        /\ merged = {batch_id(b) : b \in CoalescedBatches}
        /\ deleted = UNION {batch_keys(b) : b \in CoalescedBatches}

\* A finished future holding the outcomes, and the futures of one topic.
Held(outcomes) == [state |-> "done", outcomes |-> outcomes]

Returned(fs) == [returned |-> TRUE, futures |-> fs]

\* C12: aggregation.  The verdict of a tranche is true exactly when every
\* outcome held by every future of the tranche is true, for the one-outcome
\* futures of parallelised batches and for the per-partition lists alike;
\* aggregate([true,true], true) is true, aggregate([true,false], true) is
\* false and aggregate([[true,true],[true,false]], false) is false.
Aggregation ==
    /\ verdict_given =>
          (results[page] <=>
             \A t \in 1..Len(futures) : \A f \in Range(futures[t].futures) :
                 \A j \in 1..Len(f.outcomes) : f.outcomes[j])
    /\ successful_result(<<Returned(<<Held(<<TRUE>>), Held(<<TRUE>>)>>)>>, TRUE)
    /\ ~successful_result(<<Returned(<<Held(<<TRUE>>), Held(<<FALSE>>)>>)>>, TRUE)
    /\ ~successful_result(<<Returned(<<Held(<<TRUE, TRUE>>),
                                       Held(<<TRUE, FALSE>>)>>)>>, FALSE)

\* C12 witness: every partition was coalesced, the futures of a topic hold
\* the lists [true] and [true, false], and the verdict is false.
AggregationCase ==
    /\ verdict_given
    /\ args.partition = AllPartitions
    /\ Len(futures) = 1
    /\ Len(futures[1].futures) = 2
    /\ futures[1].futures[1].outcomes = <<TRUE>>
    /\ futures[1].futures[2].outcomes = <<TRUE, FALSE>>
    /\ results[page] = FALSE

\* The batches of a topic of the batched tranche, partition by partition.
topic_batches(t) ==
    Flatten([p \in 1..Len(batched[t].partitions) |-> batched[t].partitions[p].batches])

\* The batches given to the futures, future by future.
future_batches(fs) == Flatten([i \in 1..Len(fs) |-> fs[i].batches])

\* The positions (unit, batch) of the units in hand.
UnitBatches ==
    UNION {{<<i, j>> : j \in 1..Len(units[i].batches)} : i \in UnitIndexes}

\* C13: every batch is coalesced exactly once.  The futures coalesce_topic
\* returned for a topic were given the batches of that topic, each once and
\* none left out, and hold one outcome for each; a parallelised future holds
\* the outcome of one batch; and the store is never called twice for the
\* same operation on the same batch.
ExactlyOnce ==
    /\ \A t \in 1..Len(futures) :
          /\ futures[t].returned
          /\ future_batches(futures[t].futures) = topic_batches(t)
          /\ \A f \in Range(futures[t].futures) :
                /\ Len(f.outcomes) = Len(f.batches)
                /\ f.kind = "batch" => Len(f.batches) = 1
    /\ verdict_given => Len(tranche_outcomes) = Cardinality(BatchedBatches)
    /\ \A c1, c2 \in calls : (c1.batch = c2.batch /\ c1.op = c2.op) => c1 = c2

\* C13 witness: with a partition selected, three batches were coalesced by
\* three futures, one of them failed, and the verdict has been given.
ExactlyOnceCase ==
    /\ verdict_given
    /\ args.partition # AllPartitions
    /\ Len(futures) = 1
    /\ Len(futures[1].futures) = 3
    /\ errors = 1

\* C14: with every partition coalesced, coalesce_topic submits one unit per
\* partition of the topic, holding the batches of that partition in order;
\* no two units work on the same (topic, partition); and the store is called
\* for a batch of a unit only after every earlier batch of the unit has its
\* outcome.
OneUnitPerPartition ==
    /\ (in_coalesce_topic /\ args.partition = AllPartitions) =>
          /\ Len(units) + Len(submitting) = Len(batched[topic].partitions)
          /\ pc = "wait" => submitting = <<>>
          /\ \A i \in UnitIndexes :
                /\ units[i].kind = "partition"
                /\ units[i].batches = batched[topic].partitions[i].batches
    /\ args.partition = AllPartitions =>
          /\ \A i, k \in UnitIndexes :
                i # k =>
                   \A b1 \in Range(units[i].batches), b2 \in Range(units[k].batches) :
                       \A d1 \in Range(b1), d2 \in Range(b2) :
                           \/ key_topic(d1.key) # key_topic(d2.key)
                           \/ key_partition(d1.key) # key_partition(d2.key)
          /\ \A ij \in UnitBatches :
                LET u == units[ij[1]] IN
                (\E c \in calls : c.batch = batch_id(u.batches[ij[2]])) =>
                    /\ Len(u.outcomes) >= ij[2] - 1
                    /\ u.idx >= ij[2]

\* C14 witness: two partition units run at once, and one of them is at its
\* second batch after its first batch failed.
OneUnitPerPartitionCase ==
    /\ pc = "wait"
    /\ args.partition = AllPartitions
    /\ Len(units) = 2
    /\ \A i \in UnitIndexes : units[i].state = "running"
    /\ \E i \in UnitIndexes : units[i].idx = 2 /\ units[i].outcomes = <<FALSE>>

\* C15: no batch touches another batch's objects.  The batches of the units
\* in hand have no object in common, and no object is the subject of store
\* calls made for two different batches.
NoSharedObjects ==
    /\ \A x, y \in UnitBatches :
          x # y => batch_keys(units[x[1]].batches[x[2]]) \cap
                   batch_keys(units[y[1]].batches[y[2]]) = {}
    /\ \A c1, c2 \in calls : c1.batch # c2.batch => c1.keys \cap c2.keys = {}

\* C15 witness: two units are in the store at the same time, each deleting
\* the objects of its own batch.
NoSharedObjectsCase ==
    /\ Len(units) = 2
    /\ \A i \in UnitIndexes : units[i].state = "running" /\ units[i].stage = "delete"

\* C16: for a batch of two or more members, a true outcome means that the
\* merged object is written and every source object deleted; when the merge
\* succeeded and the delete failed the outcome is false, the merged object
\* stays written and the store is not called for the batch again.
SuccessMeansMergedAndDeleted ==
    /\ \A ij \in UnitBatches :
          LET u == units[ij[1]]
              b == u.batches[ij[2]]
          IN  (is_coalesced(b) /\ ij[2] <= Len(u.outcomes)) =>
                 /\ u.outcomes[ij[2]] =>
                       batch_id(b) \in merged /\ batch_keys(b) \subseteq deleted
                 /\ store_call(b, "delete", FALSE) \in calls =>
                       /\ ~u.outcomes[ij[2]]
                       /\ store_call(b, "coalesce", TRUE) \in calls
                       /\ store_call(b, "delete", TRUE) \notin calls
                       /\ store_call(b, "coalesce", FALSE) \notin calls
    /\ \A c \in calls : (c.op = "coalesce" /\ c.ok) => c.batch \in merged

\* C16 witness: the merge of a batch succeeded and its delete failed after
\* deleting one of its two objects; the outcome is false and the merged
\* object is in the store.
SuccessMeansMergedAndDeletedCase ==
    \E ij \in UnitBatches :
        LET u == units[ij[1]]
            b == u.batches[ij[2]]
        IN  /\ Len(b) = 2
            /\ u.state = "done"
            /\ u.outcomes[ij[2]] = FALSE
            /\ store_call(b, "delete", FALSE) \in calls
            /\ batch_id(b) \in merged
            /\ Cardinality(batch_keys(b) \cap deleted) = 1

\* C17: no data loss.  A deleted object belongs to a batch whose merge
\* succeeded and whose merged object is written; and when the merge of a
\* batch failed, the delete was never called for it and all of its objects
\* remain.
NoDataLoss ==
    /\ \A k \in deleted :
          \E c \in calls :
              c.op = "coalesce" /\ c.ok /\ k \in c.keys /\ c.batch \in merged
    /\ \A c \in calls :
          (c.op = "coalesce" /\ ~c.ok) =>
              /\ ~\E c2 \in calls : c2.batch = c.batch /\ c2.op = "delete"
              /\ c.keys \cap deleted = {}
              /\ c.batch \notin merged

\* C17 witness: the process has exited after one batch failed to merge and
\* another was merged and deleted.
NoDataLossCase ==
    /\ pc = "exited"
    /\ \E c \in calls : c.op = "coalesce" /\ ~c.ok
    /\ \E c \in calls : c.op = "delete" /\ c.ok /\ c.keys \subseteq deleted

\* C18: bounded concurrency.  No more units run than --threads allows when
\* it is positive; with every partition coalesced no more units run than the
\* topic in hand has partitions; units run only while coalesce_topic submits
\* them or waits for them, on a pool that is not shut down, and all belong
\* to the topic in hand; and whenever the next topic is about to be entered the pool of the
\* last one is shut down.
BoundedConcurrency ==
    /\ args.threads > 0 => Cardinality(running(units)) <= args.threads
    /\ running(units) # {} =>
          /\ in_coalesce_topic
          /\ ~pool.shutdown
          /\ args.partition = AllPartitions =>
                Cardinality(running(units)) <= Len(batched[topic].partitions)
    /\ in_coalesce_topic =>
          \A i \in UnitIndexes : \A b \in Range(units[i].batches) :
              \A d \in Range(b) : key_topic(d.key) = batched[topic].topic
    /\ pc = "topics" => pool.shutdown

\* C18 witness: with one thread, the second topic of a tranche is being
\* coalesced; one of its units runs while another is still pending.
BoundedConcurrencyCase ==
    /\ pc = "wait"
    /\ args.threads = 1
    /\ topic = 2
    /\ \E i \in UnitIndexes : units[i].state = "running"
    /\ \E i \in UnitIndexes : units[i].state = "pending"

----------------------------------------------------------------------------
\* Termination.  A store call may also never return; the driver and the
\* workers are threads of the operating system, so a step that stays
\* possible is eventually taken.

\* coalesce_batch, lines 94-95: the store call in hand never returns.
StoreHangs(i) ==
    LET u == units[i] IN
    /\ u.state = "running"
    /\ u.stage = "delete" \/ is_coalesced(u.batches[u.idx])
    /\ units' = [units EXCEPT ![i].state = "hung"]
    /\ UNCHANGED <<args, objects, page, pc, pool, results, exitCode>>
    /\ UNCHANGED trancheVars
    /\ UNCHANGED storeVars

LiveArgs ==
    [manifests : {FALSE}, partition : {AllPartitions, 0}, size : {3}, files : {2},
     threads : {0, 1}, multiprocessor : {FALSE}, summaries : {2, DefaultSummaries}]

InitLive == InitWith(PipelineKinds, MaxObjects, LiveArgs)

NextLive == Next \/ \E i \in 1..Len(units) : StoreHangs(i)

SpecLive == InitLive /\ [][NextLive]_vars /\ WF_vars(Next)

SomeUnitHung == \E i \in UnitIndexes : units[i].state = "hung"

\* Every tranche of the lister has its verdict and main has exited.
AllVerdictsGiven ==
    /\ pc = "exited"
    /\ Len(results) = page_count(objects, args.summaries)

\* C19: termination.  When no store call hangs, every tranche eventually has
\* its verdict and the process exits with a status; and once a store call
\* hangs, the driver stays in the coalesce_topic call of that tranche for
\* ever and the process never exits.
Termination ==
    /\ ([]~SomeUnitHung) => <>AllVerdictsGiven
    /\ [](SomeUnitHung => [](in_coalesce_topic /\ exitCode = -1))

====
